---- MODULE Spec2Model ----
(***************************************************************************)
(* Model of src/Banking.py: the BankingData pipeline                       *)
(* (extract_data, transform_data, generate_insights, display_insights,     *)
(* run).                                                                   *)
(*                                                                         *)
(* A DataFrame is a sequence of records (rows); a nullable cell is <<>>    *)
(* (NaN / None / NaT) or <<v>>.  Rationals (mean, quantile, percentile     *)
(* rank) are kept exact as <<numerator, denominator>> pairs or scaled      *)
(* integers.                                                               *)
(***************************************************************************)
EXTENDS Integers, Sequences, FiniteSets, TLC

VARIABLES
    pc,                    \* position of the run / of the function under check
    transactions,          \* raw tables (arguments of transform_data)
    customers,
    accounts,
    transactions_clean,    \* local of transform_data
    customers_clean,       \* second result of transform_data
    fact_transactions,     \* first result of transform_data
    customer_metrics,      \* local of generate_insights
    top_10_threshold,      \* local of generate_insights, scaled by 10
    monthly_summary,       \* results of generate_insights
    high_value_customers,
    category_analysis,
    transactions_reclean,  \* the cleaning steps applied to transactions_clean
    customers_reclean,     \* the cleaning steps applied to customers_clean
    stages,                \* stages of run() that completed, in order
    printed,               \* lines written to stdout: <<text, payload>> pairs
    error,                 \* the exception a stage raised: <<>> or <<stage>>
    outcome                \* how run() ended: <<>> while it runs,
                           \* <<"returned", tables>> or <<"raised", exception>>

vars == <<pc, transactions, customers, accounts, transactions_clean,
          customers_clean, fact_transactions, customer_metrics,
          top_10_threshold, monthly_summary, high_value_customers,
          category_analysis, transactions_reclean, customers_reclean,
          stages, printed, error, outcome>>

---------------------------------------------------------------------------
(* Cells and rows *)

Null == <<>>

Some(v) == <<v>>

Val(x) == x[1]

\* Rows of df whose position is in keep, in df's order (boolean-mask selection).
SelectRows(df, keep) ==
    LET F[i \in 0..Len(df)] ==
            IF i = 0 THEN <<>>
            ELSE IF i \in keep THEN Append(F[i - 1], df[i]) ELSE F[i - 1]
    IN  F[Len(df)]

\* A dedup that keeps the last row of each key instead of the first.
drop_duplicates_keep_last(df, col) ==
    SelectRows(df, {i \in 1..Len(df) :
                      \A j \in (i + 1)..Len(df) : df[j][col] # df[i][col]})

\* A dedup whose mask is not negated: it keeps the rows that repeat a key.
drop_duplicates_inverted(df, col) ==
    SelectRows(df, {i \in 1..Len(df) :
                      \E j \in 1..(i - 1) : df[j][col] = df[i][col]})

\* DataFrame.drop_duplicates(subset=[col]): keep='first'; null keys are equal
\* to each other.
drop_duplicates(df, col) ==
    SelectRows(df, {i \in 1..Len(df) :
                      \A j \in 1..(i - 1) : df[j][col] # df[i][col]})

\* A null filter that drops a row only when all the named cells are null.
dropna_all(df, cols) ==
    SelectRows(df, {i \in 1..Len(df) : \E c \in cols : df[i][c] # Null})

\* DataFrame.dropna(subset=cols): how='any'.
dropna(df, cols) ==
    SelectRows(df, {i \in 1..Len(df) : \A c \in cols : df[i][c] # Null})

\* Lines 54-56.
CleanTransactions(df) ==
    dropna(drop_duplicates(df, "transaction_id"), {"amount", "customer_id"})

\* Lines 59-61.
CleanCustomers(df) ==
    dropna(drop_duplicates(df, "customer_id"), {"customer_id"})

---------------------------------------------------------------------------
(* Derived columns, lines 63-67 *)

\* str() of the month period of NaT: the string "NaT", not a null.
NaTStr == <<0, 0>>

\* dt.to_period('M').astype(str): the date <<y, m, d>> truncated to <<y, m>>,
\* which stands for the string "YYYY-MM".
ToPeriodM(d) ==
    IF d = Null THEN Some(NaTStr) ELSE Some(<<Val(d)[1], Val(d)[2]>>)

\* dt.year
YearOf(d) == IF d = Null THEN Null ELSE Some(Val(d)[1])

HighValueAmount == 5000

\* (amount > 5000).astype(int); a comparison with NaN is False.
IsHighValue(amount) ==
    IF amount # Null /\ Val(amount) > HighValueAmount THEN Some(1) ELSE Some(0)

Extend(r, name, v) ==
    [f \in DOMAIN r \cup {name} |-> IF f = name THEN v ELSE r[f]]

Enrich(df) ==
    [i \in 1..Len(df) |->
        Extend(Extend(Extend(df[i],
            "transaction_month", ToPeriodM(df[i].transaction_date)),
            "transaction_year", YearOf(df[i].transaction_date)),
            "is_high_value", IsHighValue(df[i].amount))]

---------------------------------------------------------------------------
(* Joins and projection, lines 70-87 *)

RECURSIVE Concat(_)
Concat(ss) == IF ss = <<>> THEN <<>> ELSE Head(ss) \o Concat(Tail(ss))

\* A row of the left table combined with a matching row of the right table:
\* a column both have keeps the left value under its own name.
Combine(l, r) ==
    [f \in DOMAIN l \cup DOMAIN r |-> IF f \in DOMAIN l THEN l[f] ELSE r[f]]

\* A row of the left table with no match: the right table's columns are null.
Unmatched(l, rightCols) ==
    [f \in DOMAIN l \cup rightCols |-> IF f \in DOMAIN l THEN l[f] ELSE Null]

\* An inner join: a left row with no match is dropped.
InnerMerge(left, right, key, rightCols) ==
    Concat([i \in 1..Len(left) |->
        LET m == SelectSeq(right, LAMBDA r : r[key] = left[i][key])
        IN  [j \in 1..Len(m) |-> Combine(left[i], m[j])]])

\* left.merge(right, on=key, how='left'): left order kept, one output row per
\* matching right row (in right order), null keys match null keys.
LeftMerge(left, right, key, rightCols) ==
    Concat([i \in 1..Len(left) |->
        LET m == SelectSeq(right, LAMBDA r : r[key] = left[i][key])
        IN  IF m = <<>> THEN << Unmatched(left[i], rightCols) >>
            ELSE [j \in 1..Len(m) |-> Combine(left[i], m[j])]])

CustomerColumns ==
    {"customer_id", "age", "city", "credit_score", "employment_status"}

AccountColumns == {"account_id", "account_type"}

FactColumns ==
    {"transaction_id", "customer_id", "account_id",
     "transaction_date", "transaction_month", "transaction_year",
     "transaction_type", "amount", "merchant_category", "is_high_value",
     "age", "city", "account_type", "credit_score", "employment_status"}

Project(df, cols) == [i \in 1..Len(df) |-> [f \in cols |-> df[i][f]]]

\* transform_data's first result, from the cleaned tables and accounts.
FactTable(tc, cc, acc) ==
    Project(LeftMerge(LeftMerge(Enrich(tc), cc, "customer_id", CustomerColumns),
                      acc, "account_id", AccountColumns),
            FactColumns)

---------------------------------------------------------------------------
(* Grouping and aggregation, lines 104-139 *)

\* The strings the tables hold, in lexicographic order.
Strings ==
    <<"Checking", "Employed", "Grocery", "LA", "NY", "Savings", "Travel",
      "debit">>

StringColumns ==
    {"account_type", "city", "employment_status", "merchant_category",
     "transaction_type"}

\* The position of a non-null cell in the order of its column's values.
Ord(col, v) ==
    IF col \in StringColumns
      THEN CHOOSE k \in 1..Len(Strings) : Strings[k] = Val(v)
      ELSE IF col = "transaction_month" THEN Val(v)[1] * 12 + Val(v)[2]
      ELSE Val(v)

\* Lexicographic order of two group keys over the key columns cols.
KeyLess(cols, a, b) ==
    \E n \in 1..Len(cols) :
        /\ \A m \in 1..(n - 1) : a[cols[m]] = b[cols[m]]
        /\ Ord(cols[n], a[cols[n]]) < Ord(cols[n], b[cols[n]])

Range(s) == {s[i] : i \in 1..Len(s)}

Pairs(s) == Range(s) \X Range(s)

\* A stable sort by the order less, a function on the pairs of elements of s:
\* x goes behind the elements that are not behind it.
SortBy(s, less) ==
    LET Insert(x, t) ==
            LET k == Cardinality({j \in 1..Len(t) : ~less[<<x, t[j]>>]})
            IN  SubSeq(t, 1, k) \o <<x>> \o SubSeq(t, k + 1, Len(t))
        F[i \in 0..Len(s)] == IF i = 0 THEN <<>> ELSE Insert(s[i], F[i - 1])
    IN  F[Len(s)]

KeyOf(r, cols) == [c \in Range(cols) |-> r[c]]

\* The rows a groupby over cols groups: dropna=True, the default, leaves out
\* every row with a null cell in a key column.
GroupRows(df, cols) ==
    SelectRows(df, {i \in 1..Len(df) : \A c \in Range(cols) : df[i][c] # Null})

\* The group keys of df.groupby(cols), sorted (sort=True, the default).
GroupKeys(df, cols) ==
    LET rows == GroupRows(df, cols)
        keys == [i \in 1..Len(rows) |-> KeyOf(rows[i], cols)]
        first == SelectRows(keys, {i \in 1..Len(keys) :
                                     \A j \in 1..(i - 1) : keys[j] # keys[i]})
    IN  SortBy(first, [p \in Pairs(first) |-> KeyLess(cols, p[1], p[2])])

\* The rows of the group with key k.
Group(df, cols, k) == SelectSeq(df, LAMBDA r : KeyOf(r, cols) = k)

RECURSIVE SumSeq(_)
SumSeq(s) == IF s = <<>> THEN 0 ELSE Head(s) + SumSeq(Tail(s))

NonNull(rows, col) == SelectSeq(rows, LAMBDA r : r[col] # Null)

\* 'count': the non-null cells of col.
AggCount(rows, col) == Len(NonNull(rows, col))

\* 'sum': nulls skipped.
AggSum(rows, col) ==
    LET nn == NonNull(rows, col)
    IN  SumSeq([i \in 1..Len(nn) |-> Val(nn[i][col])])

\* 'mean': the exact fraction <<sum, count>> of the non-null cells, null when
\* there are none.
AggMean(rows, col) ==
    IF AggCount(rows, col) = 0 THEN Null
    ELSE Some(<<AggSum(rows, col), AggCount(rows, col)>>)

\* 'nunique': distinct non-null cells.
AggNUnique(rows, col) ==
    LET nn == NonNull(rows, col) IN Cardinality({nn[i][col] : i \in 1..Len(nn)})

MonthlyKeys == <<"transaction_month", "account_type">>

\* Lines 104-113. The groups come out of groupby in key order, which is the
\* order sort_values asks for.
MonthlySummary(fact) ==
    LET keys == GroupKeys(fact, MonthlyKeys)
        rows == [i \in 1..Len(keys) |->
            LET g == Group(fact, MonthlyKeys, keys[i])
            IN  [transaction_month |-> keys[i].transaction_month,
                 account_type |-> keys[i].account_type,
                 transaction_count |-> AggCount(g, "transaction_id"),
                 total_amount |-> AggSum(g, "amount"),
                 avg_transaction_amount |-> AggMean(g, "amount"),
                 active_customers |-> AggNUnique(g, "customer_id")]]
    IN  SortBy(rows, [p \in Pairs(rows) |-> KeyLess(MonthlyKeys, p[1], p[2])])

CustomerKeys ==
    <<"customer_id", "age", "city", "credit_score", "employment_status">>

\* Lines 116-122.
CustomerMetrics(fact) ==
    LET keys == GroupKeys(fact, CustomerKeys)
    IN  [i \in 1..Len(keys) |->
            LET g == Group(fact, CustomerKeys, keys[i])
            IN  [customer_id |-> keys[i].customer_id,
                 age |-> keys[i].age,
                 city |-> keys[i].city,
                 credit_score |-> keys[i].credit_score,
                 employment_status |-> keys[i].employment_status,
                 transaction_count |-> AggCount(g, "transaction_id"),
                 total_spent |-> AggSum(g, "amount"),
                 high_value_txn_count |-> AggSum(g, "is_high_value")]]

\* quantile(0.90) is the quantile QuantileNum / QuantileDen.
QuantileNum == 9

QuantileDen == 10

\* Series.quantile(0.90) of the integers xs, times QuantileDen: linear
\* interpolation between the order statistics around position
\* 0.9 * (n - 1); null (NaN) for an empty series.
Quantile90(xs) ==
    IF xs = <<>> THEN Null
    ELSE LET v == SortBy(xs, [p \in Pairs(xs) |-> p[1] < p[2]])
             k == (QuantileNum * (Len(v) - 1)) \div QuantileDen
             r == (QuantileNum * (Len(v) - 1)) % QuantileDen
         IN  Some(IF r = 0 THEN QuantileDen * v[k + 1]
                  ELSE QuantileDen * v[k + 1] + r * (v[k + 2] - v[k + 1]))

TotalSpent(cm) == [i \in 1..Len(cm) |-> cm[i].total_spent]

\* A filter that keeps only the groups strictly above the threshold.
AboveThresholdStrict(cm, thr) ==
    IF thr = Null THEN <<>>
    ELSE SelectSeq(cm, LAMBDA g : QuantileDen * g.total_spent > Val(thr))

\* customer_metrics[customer_metrics['total_spent'] >= top_10_threshold];
\* thr is the threshold times QuantileDen, a comparison with NaN is False.
AboveThreshold(cm, thr) ==
    IF thr = Null THEN <<>>
    ELSE SelectSeq(cm, LAMBDA g : QuantileDen * g.total_spent >= Val(thr))

\* Percentile ranks in which the lowest value has rank 1 (ascending=True).
RankPctAscending(xs) ==
    [i \in 1..Len(xs) |->
        LET less == Cardinality({j \in 1..Len(xs) : xs[j] < xs[i]})
            equal == Cardinality({j \in 1..Len(xs) : xs[j] = xs[i]})
        IN  <<2 * less + equal + 1, 2 * Len(xs)>>]

\* Series.rank(pct=True, ascending=False), method='average': the highest value
\* has rank 1, equal values share the mean of their ranks, and the rank is
\* divided by the number of values. The fraction <<numerator, denominator>>.
RankPctDescending(xs) ==
    [i \in 1..Len(xs) |->
        LET greater == Cardinality({j \in 1..Len(xs) : xs[j] > xs[i]})
            equal == Cardinality({j \in 1..Len(xs) : xs[j] = xs[i]})
        IN  <<2 * greater + equal + 1, 2 * Len(xs)>>]

\* A ranking taken over all the customer groups before the filter.
HighValueCustomersRankedFirst(cm, thr) ==
    LET rank == RankPctDescending(TotalSpent(cm))
        ranked == [i \in 1..Len(cm) |-> Extend(cm[i], "rank", rank[i])]
        kept == AboveThreshold(ranked, thr)
    IN  SortBy(kept, [p \in Pairs(kept) |->
                         p[1].total_spent > p[2].total_spent])

\* Lines 126-130: filter, sort by total_spent descending (groups with equal
\* total_spent keep their key order), then rank the rows that were kept.
HighValueCustomers(cm, thr) ==
    LET above == AboveThreshold(cm, thr)
        kept == SortBy(above, [p \in Pairs(above) |->
                                 p[1].total_spent > p[2].total_spent])
        rank == RankPctDescending(TotalSpent(kept))
    IN  [i \in 1..Len(kept) |-> Extend(kept[i], "rank", rank[i])]

CategoryKeys == <<"merchant_category">>

\* Lines 133-139.
CategoryAnalysis(fact) ==
    LET keys == GroupKeys(fact, CategoryKeys)
        rows == [i \in 1..Len(keys) |->
            LET g == Group(fact, CategoryKeys, keys[i])
            IN  [merchant_category |-> keys[i].merchant_category,
                 transaction_count |-> AggCount(g, "transaction_id"),
                 total_amount |-> AggSum(g, "amount"),
                 avg_amount |-> AggMean(g, "amount")]]
    IN  SortBy(rows, [p \in Pairs(rows) |->
                         p[1].total_amount > p[2].total_amount])

---------------------------------------------------------------------------
(* The functions of BankingData as steps *)

\* transform_data, lines 54-89, on the raw tables t, c, a.
TransformResult(t, c, a) ==
    LET tc == CleanTransactions(t)
        cc == CleanCustomers(c)
    IN  [transactions_clean |-> Enrich(tc),
         customers_clean |-> cc,
         fact_transactions |-> FactTable(tc, cc, a)]

HeadRows == 10

\* df.head(10)
Head10(df) == SubSeq(df, 1, IF Len(df) < HeadRows THEN Len(df) ELSE HeadRows)

\* What display_insights prints, lines 152-159.
DisplayLines(ms, hvc, ca) ==
    << <<"Monhly transactions", <<>> >>, <<"table", Head10(ms)>>,
       <<"Top 10 customers", <<>> >>, <<"table", Head10(hvc)>>,
       <<"Merchant categories", <<>> >>, <<"table", Head10(ca)>> >>

---------------------------------------------------------------------------
(* Inputs *)

MaxTx == 2

MaxFactRows == 2

MaxGroups == 11

SeqsUpTo(S, n) == UNION {[1..k -> S] : k \in 0..n}

TxRows ==
    [transaction_id : {Some(1), Some(2)},
     customer_id : {Null, Some(1)},
     account_id : {Some(1), Some(2)},
     transaction_date : {Some(<<2024, 1, 15>>)},
     transaction_type : {Some("debit")},
     amount : {Null, Some(6000)},
     merchant_category : {Some("Travel")}]

TxTables == SeqsUpTo(TxRows, MaxTx)

Customer(id, age) ==
    [customer_id |-> id, age |-> Some(age), city |-> Some("NY"),
     credit_score |-> Some(700), employment_status |-> Some("Employed")]

CustTables ==
    { <<>>,
      << Customer(Some(1), 30) >>,
      << Customer(Null, 50), Customer(Some(1), 30), Customer(Null, 40),
         Customer(Some(1), 40) >> }

Account(id, type) == [account_id |-> Some(id), account_type |-> Some(type)]

AcctTables ==
    { <<>>,
      << Account(1, "Checking") >>,
      << Account(1, "Checking"), Account(1, "Savings") >> }

\* The tables the data source of a run serves.
SourceTables ==
    TxTables \X { << Customer(Some(1), 30) >> }
             \X { << Account(1, "Checking") >> }

\* A fact row of customer c (found in customers) with the given amount.
FactRow(tid, c, amount, date, atype, cat) ==
    [transaction_id |-> Some(tid), customer_id |-> Some(c),
     account_id |-> Some(1), transaction_date |-> Some(date),
     transaction_month |-> ToPeriodM(Some(date)),
     transaction_year |-> YearOf(Some(date)),
     transaction_type |-> Some("debit"), amount |-> Some(amount),
     merchant_category |-> cat, is_high_value |-> IsHighValue(Some(amount)),
     age |-> Some(30), city |-> Some("NY"), account_type |-> atype,
     credit_score |-> Some(700), employment_status |-> Some("Employed")]

\* Fact tables of up to MaxFactRows rows over two customers, two months (an
\* amount each), with and without a matching account, with and without a
\* merchant category.
SmallFacts ==
    UNION {
      { [i \in 1..n |->
            FactRow(i, f[i][1], f[i][2][2], f[i][2][1], f[i][3], f[i][4])] :
          f \in [1..n -> {1, 2}
                          \X {<< <<2024, 1, 15>>, 5000 >>,
                              << <<2024, 2, 20>>, 6000 >>}
                          \X {Null, Some("Checking")}
                          \X {Null, Some("Travel")}] } :
      n \in 0..MaxFactRows }

\* Fact tables of n customers with one transaction each.
WideFacts ==
    UNION {
      { [i \in 1..n |->
            FactRow(i, i, amt[i], <<2024, 1, 15>>, Some("Checking"),
                    Some("Travel"))] :
          amt \in [1..n -> {5000, 6000}] } :
      n \in 0..MaxGroups }

FactInputs == SmallFacts \cup WideFacts

---------------------------------------------------------------------------
(* State machine *)

Stages == {"extract", "transform", "generate", "display"}

InitData ==
    /\ transactions = <<>> /\ customers = <<>> /\ accounts = <<>>
    /\ transactions_clean = <<>> /\ customers_clean = <<>>
    /\ fact_transactions = <<>>
    /\ customer_metrics = <<>> /\ top_10_threshold = Null
    /\ monthly_summary = <<>> /\ high_value_customers = <<>>
    /\ category_analysis = <<>>
    /\ transactions_reclean = <<>> /\ customers_reclean = <<>>
    /\ stages = <<>> /\ printed = <<>> /\ error = <<>> /\ outcome = <<>>

\* run() is called on a fresh pipeline.
Init == pc = "extract" /\ InitData

\* Line 168: extract_data returns the three tables the source serves.
extract_data ==
    /\ pc = "extract"
    /\ \E src \in SourceTables :
          /\ transactions' = src[1]
          /\ customers' = src[2]
          /\ accounts' = src[3]
    /\ stages' = Append(stages, "extract")
    /\ pc' = "transform"
    /\ UNCHANGED <<transactions_clean, customers_clean, fact_transactions,
                   customer_metrics, top_10_threshold, monthly_summary,
                   high_value_customers, category_analysis,
                   transactions_reclean, customers_reclean, printed, error,
                   outcome>>

\* Lines 171-173 (transform_data, lines 54-89).
transform_data ==
    /\ pc = "transform"
    /\ LET r == TransformResult(transactions, customers, accounts)
       IN  /\ transactions_clean' = r.transactions_clean
           /\ customers_clean' = r.customers_clean
           /\ fact_transactions' = r.fact_transactions
    /\ stages' = Append(stages, "transform")
    /\ pc' = "generate"
    /\ UNCHANGED <<transactions, customers, accounts, customer_metrics,
                   top_10_threshold, monthly_summary, high_value_customers,
                   category_analysis, transactions_reclean, customers_reclean,
                   printed, error, outcome>>

\* Lines 176-177 (generate_insights, lines 104-141).
generate_insights ==
    /\ pc = "generate"
    /\ LET cm == CustomerMetrics(fact_transactions)
           thr == Quantile90(TotalSpent(cm))
       IN  /\ monthly_summary' = MonthlySummary(fact_transactions)
           /\ customer_metrics' = cm
           /\ top_10_threshold' = thr
           /\ high_value_customers' = HighValueCustomers(cm, thr)
           /\ category_analysis' = CategoryAnalysis(fact_transactions)
    /\ stages' = Append(stages, "generate")
    /\ pc' = "display"
    /\ UNCHANGED <<transactions, customers, accounts, transactions_clean,
                   customers_clean, fact_transactions, transactions_reclean,
                   customers_reclean, printed, error, outcome>>

\* Lines 180-184 (display_insights, lines 152-159).
display_insights ==
    /\ pc = "display"
    /\ printed' = printed \o DisplayLines(monthly_summary,
                                          high_value_customers,
                                          category_analysis)
    /\ stages' = Append(stages, "display")
    /\ pc' = "return"
    /\ UNCHANGED <<transactions, customers, accounts, transactions_clean,
                   customers_clean, fact_transactions, customer_metrics,
                   top_10_threshold, monthly_summary, high_value_customers,
                   category_analysis, transactions_reclean, customers_reclean,
                   error, outcome>>

\* Line 186.
Return ==
    /\ pc = "return"
    /\ outcome' = <<"returned", <<monthly_summary, high_value_customers,
                                  category_analysis>> >>
    /\ pc' = "done"
    /\ UNCHANGED <<transactions, customers, accounts, transactions_clean,
                   customers_clean, fact_transactions, customer_metrics,
                   top_10_threshold, monthly_summary, high_value_customers,
                   category_analysis, transactions_reclean, customers_reclean,
                   stages, printed, error>>

\* A stage raises an Exception inside the try block (the source cannot be
\* read, a column is missing, a date does not parse, stdout fails ...); the
\* display stage may have printed some of its lines by then.
Raise ==
    /\ pc \in Stages
    /\ error' = <<pc>>
    /\ IF pc = "display"
         THEN \E k \in 0..5 :
                printed' = printed \o
                    SubSeq(DisplayLines(monthly_summary, high_value_customers,
                                        category_analysis), 1, k)
         ELSE printed' = printed
    /\ pc' = "except"
    /\ UNCHANGED <<transactions, customers, accounts, transactions_clean,
                   customers_clean, fact_transactions, customer_metrics,
                   top_10_threshold, monthly_summary, high_value_customers,
                   category_analysis, transactions_reclean, customers_reclean,
                   stages, outcome>>

\* A handler that reports the failure and returns what was computed so far.
ExceptSwallow ==
    /\ pc = "except"
    /\ printed' = Append(printed, <<"Pipeline failed", error>>)
    /\ outcome' = <<"returned", <<monthly_summary, high_value_customers,
                                  category_analysis>> >>
    /\ pc' = "done"
    /\ UNCHANGED <<transactions, customers, accounts, transactions_clean,
                   customers_clean, fact_transactions, customer_metrics,
                   top_10_threshold, monthly_summary, high_value_customers,
                   category_analysis, transactions_reclean, customers_reclean,
                   stages, error>>

\* Lines 188-190: print the message, re-raise the exception.
Except ==
    /\ pc = "except"
    /\ printed' = Append(printed, <<"Pipeline failed", error>>)
    /\ outcome' = <<"raised", error>>
    /\ pc' = "done"
    /\ UNCHANGED <<transactions, customers, accounts, transactions_clean,
                   customers_clean, fact_transactions, customer_metrics,
                   top_10_threshold, monthly_summary, high_value_customers,
                   category_analysis, transactions_reclean, customers_reclean,
                   stages, error>>

Next ==
    \/ extract_data
    \/ transform_data
    \/ generate_insights
    \/ display_insights
    \/ Return
    \/ Raise
    \/ Except

Spec == Init /\ [][Next]_vars

\* transform_data is called on tables drawn from the input sets.
InitTransform ==
    /\ pc = "transform"
    /\ transactions \in TxTables
    /\ customers \in CustTables
    /\ accounts \in AcctTables
    /\ transactions_clean = <<>> /\ customers_clean = <<>>
    /\ fact_transactions = <<>>
    /\ customer_metrics = <<>> /\ top_10_threshold = Null
    /\ monthly_summary = <<>> /\ high_value_customers = <<>>
    /\ category_analysis = <<>>
    /\ transactions_reclean = <<>> /\ customers_reclean = <<>>
    /\ stages = <<>> /\ printed = <<>> /\ error = <<>> /\ outcome = <<>>

\* The cleaning steps of lines 54-56 and 59-61 applied to the cleaned tables
\* (the derived columns of transactions_clean ride along).
Reclean ==
    /\ pc = "generate"
    /\ transactions_reclean' = CleanTransactions(transactions_clean)
    /\ customers_reclean' = CleanCustomers(customers_clean)
    /\ pc' = "recleaned"
    /\ UNCHANGED <<transactions, customers, accounts, transactions_clean,
                   customers_clean, fact_transactions, customer_metrics,
                   top_10_threshold, monthly_summary, high_value_customers,
                   category_analysis, stages, printed, error, outcome>>

NextTransform ==
    \/ transform_data
    \/ Reclean

SpecTransform == InitTransform /\ [][NextTransform]_vars

\* generate_insights is called on a fact table drawn from the input sets.
InitInsights ==
    /\ pc = "generate"
    /\ fact_transactions \in FactInputs
    /\ transactions = <<>> /\ customers = <<>> /\ accounts = <<>>
    /\ transactions_clean = <<>> /\ customers_clean = <<>>
    /\ customer_metrics = <<>> /\ top_10_threshold = Null
    /\ monthly_summary = <<>> /\ high_value_customers = <<>>
    /\ category_analysis = <<>>
    /\ transactions_reclean = <<>> /\ customers_reclean = <<>>
    /\ stages = <<>> /\ printed = <<>> /\ error = <<>> /\ outcome = <<>>

NextInsights == generate_insights

SpecInsights == InitInsights /\ [][NextInsights]_vars

---------------------------------------------------------------------------
(* Properties of transform_data, checked under SpecTransform *)

Transformed == pc \in {"generate", "recleaned"}

TxColumns ==
    {"transaction_id", "customer_id", "account_id", "transaction_date",
     "transaction_type", "amount", "merchant_category"}

\* The input columns of a cleaned (and enriched) transaction row.
Raw(r) == [f \in TxColumns |-> r[f]]

\* C1: the cleaned transactions have no two rows with equal transaction_id,
\* every cleaned row is a row of the input, namely the first input row with
\* its transaction_id, and the cleaned rows are in the order of the input.
C1_DedupFirstWinsInOrder ==
    Transformed =>
      /\ \A i, j \in 1..Len(transactions_clean) :
            i # j => transactions_clean[i].transaction_id
                        # transactions_clean[j].transaction_id
      /\ \E at \in [1..Len(transactions_clean) -> 1..Len(transactions)] :
            /\ \A i \in 1..Len(transactions_clean) :
                  /\ Raw(transactions_clean[i]) = transactions[at[i]]
                  /\ \A j \in 1..(at[i] - 1) :
                        transactions[j].transaction_id
                          # transactions[at[i]].transaction_id
            /\ \A i, j \in 1..Len(transactions_clean) :
                  i < j => at[i] < at[j]

\* Two different input rows share a transaction_id and the first is kept.
C1_Witness ==
    /\ Transformed
    /\ Len(transactions) = 2
    /\ transactions[1].transaction_id = transactions[2].transaction_id
    /\ transactions[1] # transactions[2]
    /\ Len(transactions_clean) = 1

\* C2: when no two accounts rows share an account_id, the fact table has one
\* row per cleaned transaction, in order: the transaction's own columns, the
\* columns of its customer and of its account when there is one, nulls when
\* there is none.
C2_OneFactRowPerTransaction ==
    (Transformed /\ \A i, j \in 1..Len(accounts) :
                       i # j => accounts[i].account_id # accounts[j].account_id)
    =>
      /\ Len(fact_transactions) = Len(transactions_clean)
      /\ \A i \in 1..Len(fact_transactions) :
            LET f == fact_transactions[i]
                cs == {k \in 1..Len(customers_clean) :
                         customers_clean[k].customer_id = f.customer_id}
                as == {k \in 1..Len(accounts) :
                         accounts[k].account_id = f.account_id}
            IN  /\ \A c \in DOMAIN transactions_clean[i] :
                      f[c] = transactions_clean[i][c]
                /\ \A c \in CustomerColumns \ {"customer_id"} :
                      IF cs = {} THEN f[c] = Null
                      ELSE \A k \in cs : f[c] = customers_clean[k][c]
                /\ IF as = {} THEN f.account_type = Null
                   ELSE \A k \in as : f.account_type = accounts[k].account_type

\* A fact table with a transaction whose account is found and one whose
\* account is not, and a customer that is found.
C2_Witness ==
    /\ Transformed
    /\ Len(accounts) = 1
    /\ Len(fact_transactions) = 2
    /\ \E i, j \in 1..Len(fact_transactions) :
          /\ fact_transactions[i].account_type # Null
          /\ fact_transactions[j].account_type = Null
          /\ fact_transactions[i].age # Null

\* C7: every cleaned transaction and every fact row has a non-null amount
\* and a non-null customer_id; every cleaned customer has a non-null
\* customer_id that no other cleaned customer has.
C7_NoNullsUniqueCustomers ==
    Transformed =>
      /\ \A i \in 1..Len(transactions_clean) :
            /\ transactions_clean[i].amount # Null
            /\ transactions_clean[i].customer_id # Null
      /\ \A i \in 1..Len(fact_transactions) :
            /\ fact_transactions[i].amount # Null
            /\ fact_transactions[i].customer_id # Null
      /\ \A i \in 1..Len(customers_clean) :
            /\ customers_clean[i].customer_id # Null
            /\ \A j \in 1..Len(customers_clean) :
                  i # j => customers_clean[i].customer_id
                              # customers_clean[j].customer_id

\* The inputs hold a transaction with a null amount and one with a null
\* customer_id, a customer with a null customer_id and a repeated customer,
\* and rows survive in every output.
C7_Witness ==
    /\ Transformed
    /\ \E i \in 1..Len(transactions) :
          transactions[i].amount = Null /\ transactions[i].customer_id # Null
    /\ \E i \in 1..Len(customers) : customers[i].customer_id = Null
    /\ Len(customers_clean) > 0
    /\ Len(customers_clean) < Len(customers) - 2
    /\ Len(fact_transactions) > 0

\* C10: the cleaning steps applied to the cleaned transactions and to the
\* cleaned customers return them unchanged, same rows in the same order.
C10_CleaningIdempotent ==
    pc = "recleaned" =>
      /\ transactions_reclean = transactions_clean
      /\ customers_reclean = customers_clean

\* The first cleaning removed rows of both tables and left rows in both.
C10_Witness ==
    /\ pc = "recleaned"
    /\ 0 < Len(transactions_clean)
    /\ Len(transactions_clean) < Len(transactions)
    /\ 0 < Len(customers_clean)
    /\ Len(customers_clean) < Len(customers)

---------------------------------------------------------------------------
(* Properties of generate_insights, checked under SpecInsights *)

Generated == pc = "display"

Counts(summary) == [i \in 1..Len(summary) |-> summary[i].transaction_count]

\* C3: the transaction_count of the Monthly Summary groups adds up to the
\* number of fact rows, and so does that of the Category Analysis groups.
C3_CountsAddUpToFactRows ==
    Generated =>
      /\ SumSeq(Counts(monthly_summary)) = Len(fact_transactions)
      /\ SumSeq(Counts(category_analysis)) = Len(fact_transactions)

\* Equality and order of fractions <<numerator, denominator>>.
RatEq(a, b) == a[1] * b[2] = b[1] * a[2]

RatLess(a, b) == a[1] * b[2] < b[1] * a[2]

\* C4 as stated: the rank of every retained row is the percentile rank of its
\* total_spent among all customer groups (highest first, or lowest first).
C4_RankAmongAllGroups ==
    Generated =>
      LET all == TotalSpent(customer_metrics)
          Among(hv, up) ==
              LET before == Cardinality({j \in 1..Len(all) :
                                IF up THEN all[j] < hv.total_spent
                                      ELSE all[j] > hv.total_spent})
                  equal == Cardinality({j \in 1..Len(all) :
                                all[j] = hv.total_spent})
              IN  <<2 * before + equal + 1, 2 * Len(all)>>
      IN  \/ \A i \in 1..Len(high_value_customers) :
                RatEq(high_value_customers[i].rank,
                      Among(high_value_customers[i], FALSE))
          \/ \A i \in 1..Len(high_value_customers) :
                RatEq(high_value_customers[i].rank,
                      Among(high_value_customers[i], TRUE))

\* C4 amended: the rank of every retained row is the percentile rank of its
\* total_spent among the retained rows only, highest first: the mean of the
\* positions its ties take in the descending order of the retained rows,
\* divided by the number of retained rows.
C4_RankAmongRetainedRows ==
    Generated =>
      \A i \in 1..Len(high_value_customers) :
        LET hv == high_value_customers
            above == Cardinality({j \in 1..Len(hv) :
                        hv[j].total_spent > hv[i].total_spent})
            ties == Cardinality({j \in 1..Len(hv) :
                        hv[j].total_spent = hv[i].total_spent})
        IN  hv[i].rank[1] * 2 * Len(hv) = hv[i].rank[2] * (2 * above + ties + 1)

\* Several groups are retained, one is not.
C4_Witness ==
    /\ Generated
    /\ Len(high_value_customers) >= 2
    /\ Len(high_value_customers) < Len(customer_metrics)

\* C5 as stated: the fact rows of a month whose account_type is null form a
\* Monthly Summary group of their own, with a null account_type and their
\* count, sum, mean and number of distinct customers.
C5_NullAccountTypeIsAGroup ==
    Generated =>
      \A i \in 1..Len(fact_transactions) :
        fact_transactions[i].account_type = Null =>
          LET g == SelectSeq(fact_transactions, LAMBDA r :
                      /\ r.account_type = Null
                      /\ r.transaction_month
                            = fact_transactions[i].transaction_month)
          IN  \E k \in 1..Len(monthly_summary) :
                /\ monthly_summary[k].transaction_month
                      = fact_transactions[i].transaction_month
                /\ monthly_summary[k].account_type = Null
                /\ monthly_summary[k].transaction_count = Len(g)
                /\ monthly_summary[k].total_amount = AggSum(g, "amount")
                /\ monthly_summary[k].avg_transaction_amount
                      = AggMean(g, "amount")
                /\ monthly_summary[k].active_customers
                      = AggNUnique(g, "customer_id")

\* The j-th smallest of xs, counting from 0.
OrderStat(xs, j) ==
    CHOOSE x \in Range(xs) :
        /\ Cardinality({i \in 1..Len(xs) : xs[i] < x}) <= j
        /\ j < Cardinality({i \in 1..Len(xs) : xs[i] <= x})

\* The customer group a High-Value Customers row was made from.
GroupOf(hv) == [f \in DOMAIN hv \ {"rank"} |-> hv[f]]

\* C8: a customer group is retained exactly when its total_spent is at least
\* the 0.9 quantile of total_spent over all customer groups, the quantile
\* that interpolates linearly between the order statistics around position
\* 0.9 * (n - 1); no group is retained twice.
C8_RetainedIffAtLeastQuantile ==
    Generated =>
      LET xs == TotalSpent(customer_metrics)
          n == Len(xs)
          lo == (9 * (n - 1)) \div 10
          r == (9 * (n - 1)) % 10
          q10 == (10 - r) * OrderStat(xs, lo)
                   + (IF r = 0 THEN 0 ELSE r * OrderStat(xs, lo + 1))
      IN  IF n = 0 THEN high_value_customers = <<>>
          ELSE /\ top_10_threshold = Some(q10)
               /\ \A i \in 1..n :
                    10 * xs[i] >= q10 <=>
                      \E j \in 1..Len(high_value_customers) :
                        GroupOf(high_value_customers[j]) = customer_metrics[i]
               /\ \A j \in 1..Len(high_value_customers) :
                    \E i \in 1..n :
                        GroupOf(high_value_customers[j]) = customer_metrics[i]
               /\ \A j, m \in 1..Len(high_value_customers) :
                    j # m => GroupOf(high_value_customers[j])
                                # GroupOf(high_value_customers[m])

\* The threshold lies between two different totals, a group is retained and
\* a group is not.
C8_Witness ==
    /\ Generated
    /\ top_10_threshold # Null
    /\ \A i \in 1..Len(customer_metrics) :
          10 * customer_metrics[i].total_spent # Val(top_10_threshold)
    /\ 0 < Len(high_value_customers)
    /\ Len(high_value_customers) < Len(customer_metrics)

\* C9 as stated: the retained row with the highest total_spent has rank 1.0,
\* and a retained row with a larger total_spent never has a smaller rank
\* than one with a smaller total_spent.
C9_HighestSpendRankOne ==
    Generated =>
      LET hv == high_value_customers
      IN  /\ \A i \in 1..Len(hv) :
                (\A j \in 1..Len(hv) : hv[j].total_spent <= hv[i].total_spent)
                  => RatEq(hv[i].rank, <<1, 1>>)
          /\ \A i, j \in 1..Len(hv) :
                hv[i].total_spent > hv[j].total_spent
                  => ~RatLess(hv[i].rank, hv[j].rank)

\* C9 amended: the retained row with the highest total_spent has the
\* smallest rank, 1/m among m retained rows when no row ties with it, and a
\* retained row with a larger total_spent always has a smaller rank than one
\* with a smaller total_spent.
C9_HighestSpendSmallestRank ==
    Generated =>
      LET hv == high_value_customers
      IN  /\ \A i \in 1..Len(hv) :
                (\A j \in 1..Len(hv) :
                    j # i => hv[j].total_spent < hv[i].total_spent)
                  => RatEq(hv[i].rank, <<1, Len(hv)>>)
          /\ \A i, j \in 1..Len(hv) :
                hv[i].total_spent > hv[j].total_spent
                  => RatLess(hv[i].rank, hv[j].rank)

\* Two retained rows differ in total_spent.
C9_Witness ==
    /\ Generated
    /\ \E i, j \in 1..Len(high_value_customers) :
          high_value_customers[i].total_spent
            > high_value_customers[j].total_spent

---------------------------------------------------------------------------
(* Properties of run, checked under Spec *)

\* The order in which run() calls the stages.
StageOrder == <<"extract", "transform", "generate", "display">>

PipelineFailedLines ==
    {i \in 1..Len(printed) : printed[i][1] = "Pipeline failed"}

\* C6: run() ends in one of two ways. It returns the three summary tables
\* after extract, transform, generate and display completed in that order
\* and nothing failed, with no 'Pipeline failed' message; or a stage failed,
\* the stages before it completed, exactly one 'Pipeline failed' message was
\* printed, as the last line, and the caller gets that same failure and no
\* tables.
C6_ReturnsAllOrRaises ==
    /\ outcome # <<>> =>
         \/ /\ outcome[1] = "returned"
            /\ error = <<>>
            /\ stages = StageOrder
            /\ outcome[2] = <<monthly_summary, high_value_customers,
                              category_analysis>>
            /\ PipelineFailedLines = {}
         \/ /\ outcome[1] = "raised"
            /\ error # <<>>
            /\ outcome[2] = error
            /\ Len(stages) < 4
            /\ stages = SubSeq(StageOrder, 1, Len(stages))
            /\ PipelineFailedLines = {Len(printed)}
    /\ (pc = "done") = (outcome # <<>>)

\* The display stage failed after it printed some of its lines, and run()
\* has raised.
C6_Witness ==
    /\ outcome # <<>>
    /\ outcome[1] = "raised"
    /\ error = <<"display">>
    /\ Len(printed) > 2

====
